---- MODULE Spec2Model ----
(***************************************************************************)
(* The cache-aside weather retrieval engine of havoAPI:                    *)
(*   internal/services/weatherapi_service.go  (FetchWeatherData,           *)
(*     FetchBulkWeatherData, APIKeyAuthorization,                          *)
(*     UpdateWeatherDataInTheRedisCache and the Redis / provider helpers)  *)
(*   internal/services/helpers.go             (formatter, title-casing)    *)
(*   api/handlers/weather_handler.go          (the two HTTP handlers)      *)
(*   internal/models/weatherapi_model.go      (CheckUserAPIKey)            *)
(*   internal/services/user_service.go,                                    *)
(*     internal/models/user_model.go          (InsertNewUser)              *)
(*   cmd/havoAPI/main.go                      (the cron schedule)          *)
(*                                                                         *)
(* Strings are sequences of one-character strings.  Every goroutine (an    *)
(* HTTP request or a cron run) is a thread with a program counter; one     *)
(* action is one I/O round trip (Redis, the provider, MySQL) together with *)
(* the local computation that follows it up to the next round trip.        *)
(***************************************************************************)
EXTENDS Integers, Sequences, FiniteSets, TLC

\* ------------------------------------------------------------------ bounds
\* Longest "locations" list of a bulk request when requests are looked at
\* on their own (SpecServe).
MaxBulk == 2
\* The integer readings the formatter is tried on: from BelowZero under zero
\* up to MaxReading (SpecFormat).
BelowZero == 25
MaxReading == 105

\* ------------------------------------------------------------ threads, data
Users == {"u1"}
Crons == {"cron"}
\* The goroutine cron starts for a firing of the schedule that comes while
\* the run of the firing before it has not returned (SpecCron).
Overruns == {"cron2"}
Threads == Users \cup Crons \cup Overruns

\* The absent value (Go's nil / zero value of a struct).
Nil == "nil"

\* Raw location queries a client can send: a one-word and a two-word name
\* in lower case ("chad", "burkina faso").
Queries == { <<"a">>, <<"a", " ", "b">> }

\* country_list shortened to a two-word and a one-word country
\* ("Burkina Faso", "Chad").
country_list == << <<"A", " ", "B">>, <<"A">> >>

\* api_keys table of the account store, and the keys a client may present
\* ("" is a missing key parameter).
StoredAPIKeys == {"k1"}
PresentedAPIKeys == {"", "k1", "k9"}

\* ------------------------------------------------------------------ errors
ErrNoDataCache == "ErrNoDataCache"
ErrNoLocationFound == "ErrNoLocationFound"
ErrUnexpectedEndOfJSONInput == "ErrUnexpectedEndOfJSONInput"
ErrUnmarshalJSON == "error occurred while unmarshaling JSON"
ErrMissingEnv == "config: missing environment variable"
ErrHTTPGet == "failed to send GET request to the given URL"
ErrStatusNot200 == "weatherapi response status code is not 200"
ErrReadBody == "error occurred while reading response body of weatherapi"
ErrRedisGet == "failed to get data from Redis"
ErrRedisUnmarshal == "failed to unmarshal data"
ErrRedisSet == "failed to set data in Redis"
ErrRedisFlush == "failed to flush Redis database"
ErrAPIKeyNotFound == "ErrAPIKeyNotFound"
ErrCheckAPIKey == "error occurred while checking user API key"

\* ------------------------------------------------------ strings (helpers.go)
Lower == {"a", "b"}
Upper == {"A", "B"}
IsLetter(c) == c \in Lower \cup Upper
ToUpper(c) == IF c = "a" THEN "A" ELSE IF c = "b" THEN "B" ELSE c
ToLower(c) == IF c = "A" THEN "a" ELSE IF c = "B" THEN "b" ELSE c

\* cases.Title(language.Und): the first letter of every word is upper-cased,
\* every later letter of the word lower-cased; other characters are copied
\* and end the word.
RECURSIVE TitleFrom(_, _)
TitleFrom(s, isMidWord) ==
    IF s = <<>> THEN <<>>
    ELSE LET c == Head(s) IN
         IF IsLetter(c)
         THEN <<IF isMidWord THEN ToLower(c) ELSE ToUpper(c)>>
                  \o TitleFrom(Tail(s), TRUE)
         ELSE <<c>> \o TitleFrom(Tail(s), FALSE)

\* capitalizeFirstLetter raising the first letter of the string only.
capitalizeFirstLetter_firstOnly(s) ==
    IF s = <<>> THEN s
    ELSE <<ToUpper(Head(s))>> \o [k \in 1..(Len(s) - 1) |-> ToLower(s[k + 1])]

\* capitalizeFirstLetter: cases.Title(language.Und).String(s)
capitalizeFirstLetter(s) == TitleFrom(s, FALSE)

\* strings.Replace(q, " ", "%20", -1)
RECURSIVE ReplaceSpaces(_)
ReplaceSpaces(s) ==
    IF s = <<>> THEN <<>>
    ELSE (IF Head(s) = " " THEN <<"%", "2", "0">> ELSE <<Head(s)>>)
            \o ReplaceSpaces(Tail(s))

\* fmt.Sprintf("'%s' not found", q)
NotFoundMessage(q) == <<"'">> \o q \o <<"'", " not found">>

\* --------------------------------------------------- formatter (helpers.go)
getTempColor(tempC) ==
    IF tempC < -20 THEN "#003366"
    ELSE IF tempC >= -20 /\ tempC < -10 THEN "#4A90E2"
    ELSE IF tempC >= -10 /\ tempC < 0 THEN "#B3DFFD"
    ELSE IF tempC >= 0 /\ tempC < 10 THEN "#E6F7FF"
    ELSE IF tempC >= 10 /\ tempC < 20 THEN "#D1F2D3"
    ELSE IF tempC >= 20 /\ tempC < 30 THEN "#FFFACD"
    ELSE IF tempC >= 30 /\ tempC < 40 THEN "#FFCC80"
    ELSE IF tempC >= 40 /\ tempC < 50 THEN "#FF7043"
    ELSE IF tempC >= 50 THEN "#D32F2F"
    ELSE "#FFFFFF"

\* getWindColor with the first band closed at its upper end.
getWindColor_inclusiveUpper(windKph) ==
    IF windKph >= 0 /\ windKph <= 10 THEN "#E0F7FA"
    ELSE IF windKph >= 10 /\ windKph < 20 THEN "#B2EBF2"
    ELSE IF windKph >= 20 /\ windKph < 40 THEN "#4DD0E1"
    ELSE IF windKph >= 40 /\ windKph < 60 THEN "#0288D1"
    ELSE IF windKph >= 60 THEN "#01579B"
    ELSE "#FFFFFF"

getWindColor(windKph) ==
    IF windKph >= 0 /\ windKph < 10 THEN "#E0F7FA"
    ELSE IF windKph >= 10 /\ windKph < 20 THEN "#B2EBF2"
    ELSE IF windKph >= 20 /\ windKph < 40 THEN "#4DD0E1"
    ELSE IF windKph >= 40 /\ windKph < 60 THEN "#0288D1"
    ELSE IF windKph >= 60 THEN "#01579B"
    ELSE "#FFFFFF"

\* getCloudColor with the last band open at 100.
getCloudColor_exclusive100(cloud) ==
    IF cloud >= 0 /\ cloud < 10 THEN "#FFF9C4"
    ELSE IF cloud >= 10 /\ cloud < 30 THEN "#FFF176"
    ELSE IF cloud >= 30 /\ cloud < 60 THEN "#E0E0E0"
    ELSE IF cloud >= 60 /\ cloud < 90 THEN "#9E9E9E"
    ELSE IF cloud >= 90 /\ cloud < 100 THEN "#616161"
    ELSE "#FFFFFF"

getCloudColor(cloud) ==
    IF cloud >= 0 /\ cloud < 10 THEN "#FFF9C4"
    ELSE IF cloud >= 10 /\ cloud < 30 THEN "#FFF176"
    ELSE IF cloud >= 30 /\ cloud < 60 THEN "#E0E0E0"
    ELSE IF cloud >= 60 /\ cloud < 90 THEN "#9E9E9E"
    ELSE IF cloud >= 90 /\ cloud <= 100 THEN "#616161"
    ELSE "#FFFFFF"

\* The zero value FormattedWeatherData{}.
ZeroFormatted ==
    [Name |-> <<>>, Country |-> <<>>, Lat |-> 0, Lon |-> 0,
     TempC |-> 0, TempColor |-> "", WindKph |-> 0, WindColor |-> "",
     Cloud |-> 0, CloudColor |-> ""]

formatWeatherData(weatherData) ==
    [Name |-> weatherData.Location.Name,
     Country |-> weatherData.Location.Country,
     Lat |-> weatherData.Location.Lat,
     Lon |-> weatherData.Location.Lon,
     TempC |-> weatherData.Current.TempC,
     TempColor |-> getTempColor(weatherData.Current.TempC),
     WindKph |-> weatherData.Current.WindKph,
     WindColor |-> getWindColor(weatherData.Current.WindKph),
     Cloud |-> weatherData.Current.Cloud,
     CloudColor |-> getCloudColor(weatherData.Current.Cloud)]

\* ------------------------------------------------------------- JSON codecs
\* json.Marshal of a FormattedWeatherData whose TempColor field has no json
\* tag: the member goes out under the field's name.
MarshalFormatted_untaggedTempColor(d) ==
    << <<"name", d.Name>>, <<"country", d.Country>>, <<"lat", d.Lat>>,
       <<"lon", d.Lon>>, <<"temp_c", d.TempC>>, <<"TempColor", d.TempColor>>,
       <<"wind_kph", d.WindKph>>, <<"wind_color", d.WindColor>>,
       <<"cloud", d.Cloud>>, <<"cloud_color", d.CloudColor>> >>

\* json.Marshal(FormattedWeatherData): the object as its list of
\* <<json tag, value>> members in field order (services/model.go tags).
MarshalFormatted(d) ==
    << <<"name", d.Name>>, <<"country", d.Country>>, <<"lat", d.Lat>>,
       <<"lon", d.Lon>>, <<"temp_c", d.TempC>>, <<"temp_color", d.TempColor>>,
       <<"wind_kph", d.WindKph>>, <<"wind_color", d.WindColor>>,
       <<"cloud", d.Cloud>>, <<"cloud_color", d.CloudColor>> >>

\* Member lookup of json.Unmarshal: the value of the last member with the
\* tag, the field's zero value when the object has none.
JSONMember(obj, tag, zero) ==
    LET idx == {i \in 1..Len(obj) : obj[i][1] = tag}
    IN IF idx = {} THEN zero
       ELSE obj[CHOOSE i \in idx : \A j \in idx : j <= i][2]

\* json.Unmarshal([]byte(jsonData), &weatherData) of a cached value.
UnmarshalFormatted(obj) ==
    [Name |-> JSONMember(obj, "name", <<>>),
     Country |-> JSONMember(obj, "country", <<>>),
     Lat |-> JSONMember(obj, "lat", 0),
     Lon |-> JSONMember(obj, "lon", 0),
     TempC |-> JSONMember(obj, "temp_c", 0),
     TempColor |-> JSONMember(obj, "temp_color", ""),
     WindKph |-> JSONMember(obj, "wind_kph", 0),
     WindColor |-> JSONMember(obj, "wind_color", ""),
     Cloud |-> JSONMember(obj, "cloud", 0),
     CloudColor |-> JSONMember(obj, "cloud_color", "")]

\* A value stored in Redis or a provider response body: a JSON text that is
\* well formed (syntax "ok", with its members), cut short ("truncated") or
\* well formed with a member of the wrong type ("mistyped").
JSONText(obj) == [syntax |-> "ok", obj |-> obj]

\* ---------------------------------------------------------- weather provider
\* Current conditions the provider may report (temp_c, wind_kph, cloud).
Readings ==
    { [TempC |-> -5, WindKph |-> 5, Cloud |-> 0],
      [TempC |-> 25, WindKph |-> 45, Cloud |-> 95] }

\* What one GET to api.weatherapi.com can come back with.
ProviderResponses ==
    { [kind |-> k, reading |-> CHOOSE r \in Readings : TRUE] :
        k \in {"transport_error", "status_400", "status_500", "read_error",
               "truncated", "mistyped"} }
    \cup { [kind |-> "ok", reading |-> r] : r \in Readings }

\* The body of a 200 answer for the location asked for in the URL.
ProviderBody(query, resp) ==
    [syntax |-> IF resp.kind \in {"truncated", "mistyped"} THEN resp.kind ELSE "ok",
     obj |-> << <<"location", << <<"name", query>>, <<"country", <<"X">> >>,
                                 <<"lat", 41>>, <<"lon", 69>> >> >>,
                <<"current", << <<"temp_c", resp.reading.TempC>>,
                                <<"wind_kph", resp.reading.WindKph>>,
                                <<"cloud", resp.reading.Cloud>> >> >> >>]

\* requestToWeatherApi taking every status other than 200 for "no location".
requestToWeatherApi_not200IsNotFound(query, resp) ==
    IF resp.kind = "transport_error" THEN [body |-> JSONText(<<>>), err |-> ErrHTTPGet]
    ELSE IF resp.kind \in {"status_400", "status_500"}
    THEN [body |-> JSONText(<<>>), err |-> ErrNoLocationFound]
    ELSE IF resp.kind = "read_error" THEN [body |-> JSONText(<<>>), err |-> ErrReadBody]
    ELSE [body |-> ProviderBody(query, resp), err |-> Nil]

\* requestToWeatherApi(url): the body and the error.
requestToWeatherApi(query, resp) ==
    IF resp.kind = "transport_error" THEN [body |-> JSONText(<<>>), err |-> ErrHTTPGet]
    ELSE IF resp.kind = "status_400" THEN [body |-> JSONText(<<>>), err |-> ErrNoLocationFound]
    ELSE IF resp.kind = "status_500" THEN [body |-> JSONText(<<>>), err |-> ErrStatusNot200]
    ELSE IF resp.kind = "read_error" THEN [body |-> JSONText(<<>>), err |-> ErrReadBody]
    ELSE [body |-> ProviderBody(query, resp), err |-> Nil]

\* json.Unmarshal(resBody, &weatherData) into the Weather struct.
UnmarshalWeather(body) ==
    LET location == JSONMember(body.obj, "location", <<>>)
        current == JSONMember(body.obj, "current", <<>>)
    IN [Location |-> [Name |-> JSONMember(location, "name", <<>>),
                      Country |-> JSONMember(location, "country", <<>>),
                      Lat |-> JSONMember(location, "lat", 0),
                      Lon |-> JSONMember(location, "lon", 0)],
        Current |-> [TempC |-> JSONMember(current, "temp_c", 0),
                     WindKph |-> JSONMember(current, "wind_kph", 0),
                     Cloud |-> JSONMember(current, "cloud", 0)]]

\* FetchWeatherData caching the empty record for a location the provider
\* does not know (negative caching).
FetchFromProvider_cachesNotFound(query, resp) ==
    LET r == requestToWeatherApi(query, resp) IN
    IF r.err = ErrNoLocationFound
    THEN [next |-> "write", data |-> ZeroFormatted, err |-> Nil]
    ELSE IF r.err # Nil
    THEN [next |-> "return", data |-> ZeroFormatted, err |-> r.err]
    ELSE IF r.body.syntax = "truncated"
    THEN [next |-> "return", data |-> ZeroFormatted, err |-> ErrUnexpectedEndOfJSONInput]
    ELSE IF r.body.syntax = "mistyped"
    THEN [next |-> "return", data |-> ZeroFormatted, err |-> ErrUnmarshalJSON]
    ELSE [next |-> "write", data |-> formatWeatherData(UnmarshalWeather(r.body)),
          err |-> Nil]

\* FetchWeatherData going on to format and cache what json.Unmarshal filled
\* in before it met a value of the wrong type.
FetchFromProvider_cachesPartial(query, resp) ==
    LET r == requestToWeatherApi(query, resp) IN
    IF r.err # Nil
    THEN [next |-> "return", data |-> ZeroFormatted,
          err |-> IF r.err = ErrNoLocationFound THEN ErrNoLocationFound ELSE r.err]
    ELSE IF r.body.syntax = "truncated"
    THEN [next |-> "return", data |-> ZeroFormatted, err |-> ErrUnexpectedEndOfJSONInput]
    ELSE [next |-> "write", data |-> formatWeatherData(UnmarshalWeather(r.body)),
          err |-> Nil]

\* FetchWeatherData from the provider request to the formatted record
\* (weatherapi_service.go:102-128): what to do next, the record, the error.
FetchFromProvider(query, resp) ==
    LET r == requestToWeatherApi(query, resp) IN
    IF r.err # Nil
    THEN [next |-> "return", data |-> ZeroFormatted,
          err |-> IF r.err = ErrNoLocationFound THEN ErrNoLocationFound ELSE r.err]
    ELSE IF r.body.syntax = "truncated"
    THEN [next |-> "return", data |-> ZeroFormatted, err |-> ErrUnexpectedEndOfJSONInput]
    ELSE IF r.body.syntax = "mistyped"
    THEN [next |-> "return", data |-> ZeroFormatted, err |-> ErrUnmarshalJSON]
    ELSE [next |-> "write", data |-> formatWeatherData(UnmarshalWeather(r.body)),
          err |-> Nil]

\* ------------------------------------------------------------- Redis cache
\* retrieveWeatherDataFromRedisCache without the redis.Nil case: a missing
\* key is reported like any other failure of the GET.
retrieveWeatherDataFromRedisCache_missingIsFailure(store, location0, storeOK) ==
    LET location == capitalizeFirstLetter(location0) IN
    IF ~storeOK \/ location \notin DOMAIN store
    THEN [data |-> ZeroFormatted, err |-> ErrRedisGet]
    ELSE IF store[location].syntax # "ok"
    THEN [data |-> ZeroFormatted, err |-> ErrRedisUnmarshal]
    ELSE [data |-> UnmarshalFormatted(store[location].obj), err |-> Nil]

\* retrieveWeatherDataFromRedisCache(location) on store contents `store`;
\* storeOK is whether the Redis round trip itself succeeds.
retrieveWeatherDataFromRedisCache(store, location0, storeOK) ==
    LET location == capitalizeFirstLetter(location0) IN
    IF ~storeOK THEN [data |-> ZeroFormatted, err |-> ErrRedisGet]
    ELSE IF location \notin DOMAIN store
    THEN [data |-> ZeroFormatted, err |-> ErrNoDataCache]
    ELSE IF store[location].syntax # "ok"
    THEN [data |-> ZeroFormatted, err |-> ErrRedisUnmarshal]
    ELSE [data |-> UnmarshalFormatted(store[location].obj), err |-> Nil]

\* FetchWeatherData with the early return on a hit missing: a hit goes on to
\* the provider like a miss.
FetchAfterCacheRead_hitFallsThrough(r) ==
    IF r.err = Nil \/ r.err = ErrNoDataCache
    THEN [next |-> "provider", data |-> ZeroFormatted, err |-> Nil]
    ELSE [next |-> "return", data |-> ZeroFormatted, err |-> r.err]

\* FetchWeatherData treating every failed cache read as a miss.
FetchAfterCacheRead_anyErrorIsMiss(r) ==
    IF r.err = Nil THEN [next |-> "return", data |-> r.data, err |-> Nil]
    ELSE [next |-> "provider", data |-> ZeroFormatted, err |-> Nil]

\* FetchWeatherData after the cache read (weatherapi_service.go:88-95,139).
FetchAfterCacheRead(r) ==
    IF r.err = Nil THEN [next |-> "return", data |-> r.data, err |-> Nil]
    ELSE IF r.err = ErrNoDataCache
    THEN [next |-> "provider", data |-> ZeroFormatted, err |-> Nil]
    ELSE [next |-> "return", data |-> ZeroFormatted, err |-> r.err]

\* SET that leaves an existing entry alone (SETNX): the first writer wins.
RedisSet_setIfAbsent(store, location, value) ==
    [k \in DOMAIN store \cup {location} |->
        IF k \in DOMAIN store THEN store[k] ELSE value]

\* redisClient.Set(ctx, location, jsonData, 30*time.Minute)
RedisSet(store, location, value) ==
    [k \in DOMAIN store \cup {location} |->
        IF k = location THEN value ELSE store[k]]

\* Removal of one key (expiry of its TTL).
RedisDel(store, location) ==
    [k \in DOMAIN store \ {location} |-> store[k]]

\* The key FetchWeatherData writes under (weatherapi_service.go:103,129).
CacheWriteKey(q) == ReplaceSpaces(q)

\* FlushDB: the store with every key removed.
EmptyStore == [k \in {} |-> JSONText(<<>>)]

\* How one GET can go: the stored text comes back, the round trip fails, or
\* the text that comes back is not the JSON of a FormattedWeatherData.
ReadOutcomes == {"ok", "down", "garbled"}

\* The store as a GET of `location` sees it when the text is not valid JSON.
Garbled(store, location) ==
    [k \in DOMAIN store |->
        IF k = location THEN [syntax |-> "bad", obj |-> <<>>] ELSE store[k]]

\* ------------------------------------------------------------ account store
\* CheckUserAPIKey reporting a key without a row as (false, nil).
CheckUserAPIKey_absentIsFalseNil(keys, apiKey, dbOK) ==
    IF ~dbOK THEN [valid |-> FALSE, err |-> "failed to scan count of api key"]
    ELSE IF Cardinality({k \in keys : k = apiKey}) > 0
    THEN [valid |-> TRUE, err |-> Nil]
    ELSE [valid |-> FALSE, err |-> Nil]

\* MySQL.CheckUserAPIKey: SELECT COUNT(*) FROM api_keys WHERE api_key=?;
\* dbOK is whether the query itself succeeds.
CheckUserAPIKey(keys, apiKey, dbOK) ==
    IF ~dbOK THEN [valid |-> FALSE, err |-> "failed to scan count of api key"]
    ELSE IF Cardinality({k \in keys : k = apiKey}) > 0
    THEN [valid |-> TRUE, err |-> Nil]
    ELSE [valid |-> FALSE, err |-> "models: API Key not found"]

\* APIKeyAuthorization with the not-found error dropped: (false, nil).
APIKeyAuthorization_notFoundIsNil(keys, apiKey, dbOK) ==
    LET r == CheckUserAPIKey(keys, apiKey, dbOK) IN
    IF r.err # Nil
    THEN IF r.err = "models: API Key not found"
         THEN [valid |-> FALSE, err |-> Nil]
         ELSE [valid |-> FALSE, err |-> ErrCheckAPIKey]
    ELSE [valid |-> r.valid, err |-> Nil]

\* WeatherAPIService.APIKeyAuthorization
APIKeyAuthorization(keys, apiKey, dbOK) ==
    LET r == CheckUserAPIKey(keys, apiKey, dbOK) IN
    IF r.err # Nil
    THEN IF r.err = "models: API Key not found"
         THEN [valid |-> FALSE, err |-> ErrAPIKeyNotFound]
         ELSE [valid |-> FALSE, err |-> ErrCheckAPIKey]
    ELSE [valid |-> r.valid, err |-> Nil]

\* --------------------------------------------------------- HTTP responses
StatusOK == 200
StatusBadRequest == 400
StatusUnauthorized == 401
StatusNotFound == 404
StatusInternalServerError == 500

NoBody == [kind |-> "none", message |-> "", location |-> ZeroFormatted,
           bulk |-> <<>>, not_found |-> <<>>, has_not_found |-> FALSE]

\* helpers.ClientError(c, code, message)
ClientError(code, message) ==
    [status |-> code, body |-> [NoBody EXCEPT !.kind = "error", !.message = message]]

\* ServerError sending the text of the error to the client.
ServerError_sendsErrorText(err) ==
    [status |-> StatusInternalServerError,
     body |-> [NoBody EXCEPT !.kind = "error", !.message = err]]

\* helpers.ServerError(c, err): the error is logged, the client gets a fixed text.
ServerError(err) ==
    [status |-> StatusInternalServerError,
     body |-> [NoBody EXCEPT !.kind = "error",
               !.message = "An unexpected server error occurred. Please try again later."]]

\* The handlers' answer to the result of APIKeyAuthorization
\* (weather_handler.go:28-36, 60-68): the response, or none to go on.
NoResponse == [status |-> 0, body |-> NoBody]
AuthorizationResponse(auth) ==
    IF auth.err # Nil
    THEN IF auth.err = ErrAPIKeyNotFound
         THEN ClientError(StatusUnauthorized, "API key has been disabled.")
         ELSE ServerError(auth.err)
    ELSE NoResponse

\* WeatherData after FetchWeatherData (weather_handler.go:38-50).
WeatherDataResponse(weatherData, err) ==
    IF err # Nil
    THEN IF err = ErrNoLocationFound
         THEN ClientError(StatusNotFound, "no matching location found")
         ELSE ServerError(err)
    ELSE [status |-> StatusOK,
          body |-> [NoBody EXCEPT !.kind = "location", !.location = weatherData]]

\* BulkWeatherData after FetchBulkWeatherData (weather_handler.go:79-95).
BulkWeatherDataResponse(ret) ==
    IF ret.err # Nil THEN ServerError(ret.err)
    ELSE IF Len(ret.notFound) > 0
    THEN [status |-> StatusOK,
          body |-> [NoBody EXCEPT !.kind = "bulk", !.bulk = ret.found,
                    !.not_found = ret.notFound, !.has_not_found = TRUE]]
    ELSE [status |-> StatusOK,
          body |-> [NoBody EXCEPT !.kind = "bulk", !.bulk = ret.found]]

\* helpers.FilterValidQValues: the Q values other than "" and " ".
RECURSIVE FilterValidQValues(_)
FilterValidQValues(locations) ==
    IF locations = <<>> THEN <<>>
    ELSE (IF Head(locations) # <<>> /\ Head(locations) # <<" ">>
          THEN <<Head(locations)>> ELSE <<>>)
            \o FilterValidQValues(Tail(locations))

\* ----------------------------------------------------- bulk and refresh loops
\* The loop body with the not-found text built from the normalized query.
BulkIteration_normalizedMessage(found, notFound, q, weatherData, err) ==
    IF err # Nil
    THEN IF err = ErrNoLocationFound
         THEN [found |-> found,
               notFound |-> Append(notFound, NotFoundMessage(capitalizeFirstLetter(q))),
               abort |-> FALSE, err |-> Nil]
         ELSE [found |-> <<>>, notFound |-> <<>>, abort |-> TRUE, err |-> err]
    ELSE [found |-> Append(found, weatherData), notFound |-> notFound,
          abort |-> FALSE, err |-> Nil]

\* The loop body returning what it has collected together with the error.
BulkIteration_keepsPartial(found, notFound, q, weatherData, err) ==
    IF err # Nil
    THEN IF err = ErrNoLocationFound
         THEN [found |-> found, notFound |-> Append(notFound, NotFoundMessage(q)),
               abort |-> FALSE, err |-> Nil]
         ELSE [found |-> found, notFound |-> notFound, abort |-> TRUE, err |-> err]
    ELSE [found |-> Append(found, weatherData), notFound |-> notFound,
          abort |-> FALSE, err |-> Nil]

\* The loop body logging and skipping a lookup that failed with another
\* error, as the roster loop does.
BulkIteration_skipsError(found, notFound, q, weatherData, err) ==
    IF err # Nil
    THEN IF err = ErrNoLocationFound
         THEN [found |-> found, notFound |-> Append(notFound, NotFoundMessage(q)),
               abort |-> FALSE, err |-> Nil]
         ELSE [found |-> found, notFound |-> notFound, abort |-> FALSE, err |-> Nil]
    ELSE [found |-> Append(found, weatherData), notFound |-> notFound,
          abort |-> FALSE, err |-> Nil]

\* The loop body putting each result at the front of its list.
BulkIteration_prepends(found, notFound, q, weatherData, err) ==
    IF err # Nil
    THEN IF err = ErrNoLocationFound
         THEN [found |-> found, notFound |-> <<NotFoundMessage(q)>> \o notFound,
               abort |-> FALSE, err |-> Nil]
         ELSE [found |-> <<>>, notFound |-> <<>>, abort |-> TRUE, err |-> err]
    ELSE [found |-> <<weatherData>> \o found, notFound |-> notFound,
          abort |-> FALSE, err |-> Nil]

\* One iteration of the loop of FetchBulkWeatherData
\* (weatherapi_service.go:148-161) on the result of FetchWeatherData(q).
BulkIteration(found, notFound, q, weatherData, err) ==
    IF err # Nil
    THEN IF err = ErrNoLocationFound
         THEN [found |-> found, notFound |-> Append(notFound, NotFoundMessage(q)),
               abort |-> FALSE, err |-> Nil]
         ELSE [found |-> <<>>, notFound |-> <<>>, abort |-> TRUE, err |-> err]
    ELSE [found |-> Append(found, weatherData), notFound |-> notFound,
          abort |-> FALSE, err |-> Nil]

\* FetchBulkWeatherData returning a not-found list it made with
\* make([]string, 0): present also when it is empty.
BulkReturn_presentEmpty(found, notFound) ==
    [found |-> found, notFound |-> notFound, notFoundNil |-> FALSE, err |-> Nil]

\* The return of FetchBulkWeatherData after the loop
\* (weatherapi_service.go:163-167); notFoundNil is a nil not-found slice.
BulkReturn(found, notFound) ==
    IF Len(notFound) > 0
    THEN [found |-> found, notFound |-> notFound, notFoundNil |-> FALSE, err |-> Nil]
    ELSE [found |-> found, notFound |-> <<>>, notFoundNil |-> TRUE, err |-> Nil]

\* The refresh going on to the roster whatever the flush returned.
RefreshAfterFlush_ignoresError(err) == TRUE

\* UpdateWeatherDataInTheRedisCache after the flush
\* (weatherapi_service.go:273-276): TRUE to go on to the roster.
RefreshAfterFlush(err) == err = Nil

\* The roster loop returning the first fetch error instead of continuing.
RefreshIteration_returnsError(err) == IF err # Nil THEN "return" ELSE "sleep"

\* One iteration of the roster loop (weatherapi_service.go:282-291) on the
\* error of FetchWeatherData: "continue" at once, "sleep" 500 ms first, or
\* "return" the error.
RefreshIteration(err) == IF err # Nil THEN "continue" ELSE "sleep"

\* ---------------------------------------------------------- user accounts
\* Usernames a client may sign up with.
Usernames == {"ann", "bob", "cy"}
ErrUsernameExists == "services: Username already exists"
ErrHashPassword == "error occurred while hashing password in the service section"
ErrInsertUser == "error occurred while inserting user"
ErrInsertAPIKey == "error occurred while inserting new API key"

\* The account store at start: one user, who holds the stored API keys.
InitialAccounts ==
    [users |-> {[id |-> 1, username |-> "u0"]},
     api_keys |-> {[user_id |-> 1, api_key |-> k] : k \in StoredAPIKeys}]

\* uuid.New().String() for the key of user userID: a key no row holds yet.
NewAPIKey(userID) == <<"uuid", userID>>

\* MySQL.InsertUser: the table afterwards, the AUTO_INCREMENT id and the
\* error (1062 for a username that has a row); dbOK is whether the
\* statement itself succeeds.
InsertUser(users, username, dbOK) ==
    IF \E u \in users : u.username = username
    THEN [users |-> users, id |-> 0, err |-> "models: Username already exists"]
    ELSE IF ~dbOK
    THEN [users |-> users, id |-> 0, err |-> "failed to insert the new user to the database"]
    ELSE LET id == Cardinality(users) + 1
         IN [users |-> users \cup {[id |-> id, username |-> username]},
             id |-> id, err |-> Nil]

\* MySQL.InsertUserAPIKey: the table afterwards and the error.
InsertUserAPIKey(api_keys, userID, apiKey, dbOK) ==
    IF dbOK
    THEN [api_keys |-> api_keys \cup {[user_id |-> userID, api_key |-> apiKey]},
          err |-> Nil]
    ELSE [api_keys |-> api_keys, err |-> "failed to insert new API key into the database"]

\* UsersService.InsertNewUser(name, surname, username, password) on the
\* account store d: the store afterwards and the returned error.  hashOK,
\* userOK and keyOK are whether bcrypt and the two INSERTs succeed.
InsertNewUser(d, username, hashOK, userOK, keyOK) ==
    IF ~hashOK THEN [db |-> d, err |-> ErrHashPassword]
    ELSE LET u == InsertUser(d.users, username, userOK) IN
         IF u.err # Nil
         THEN [db |-> d,
               err |-> IF u.err = "models: Username already exists"
                       THEN ErrUsernameExists ELSE ErrInsertUser]
         ELSE LET k == InsertUserAPIKey(d.api_keys, u.id, NewAPIKey(u.id), keyOK) IN
              IF k.err # Nil
              THEN [db |-> [d EXCEPT !.users = u.users], err |-> ErrInsertAPIKey]
              ELSE [db |-> [users |-> u.users, api_keys |-> k.api_keys], err |-> Nil]

\* ------------------------------------------------------------------- state
VARIABLES
    cache,      \* the Redis database: key -> stored JSON text
    alive,      \* FALSE once log.Fatalf has ended the process
    env,        \* API_KEY_FOR_WEATHERAPI of the process environment ("" = unset)
    th,         \* per thread: program counter, arguments, locals, results
    fresh,      \* history: normalized name -> record of the latest fetch that
                \* missed, fetched and cached it, while that entry has neither
                \* expired nor been flushed
    lapsed,     \* history: the normalized names whose cached entry was
                \* removed by expiry and that were not cached again since
    db          \* the account store: the rows of users and of api_keys

vars == <<cache, alive, env, th, fresh, lapsed, db>>

NoExpect == [known |-> FALSE, rec |-> ZeroFormatted]
NotSeen == [present |-> FALSE, value |-> JSONText(<<>>)]
NoReturn == [found |-> <<>>, notFound |-> <<>>, notFoundNil |-> TRUE, err |-> Nil]

\* A thread that runs nothing.  pc: idle, read
\* (Redis GET and, on a miss, the provider's HTTP GET), write (Redis SET),
\* flush (Redis FLUSHDB),
\* sleep (time.Sleep), done (the handler or the job has returned), fatal.
\* hit, rerr (the error of the cache read), seen, provider (how the provider
\* answered), nGet, nProv, nSet, setFailed, expect, wasLapsed, trail, called,
\* avalid and aerr (the result of APIKeyAuthorization), flushed, raced (another thread
\* was between its miss and its write of the same location when this call
\* was) and overlap (a refresh flushed the cache while this user lookup was
\* under way) are history of the running call, not program state.
Idle ==
    [pc |-> "idle", op |-> "none", apiKey |-> "", queries |-> <<>>, i |-> 0,
     q |-> <<>>, query |-> <<>>, data |-> ZeroFormatted,
     frec |-> ZeroFormatted, ferr |-> Nil,
     hit |-> FALSE, rerr |-> Nil, seen |-> NotSeen, provider |-> "none",
     nGet |-> 0, nProv |-> 0, nSet |-> 0,
     setFailed |-> FALSE, expect |-> NoExpect, wasLapsed |-> FALSE,
     found |-> <<>>, notFound |-> <<>>, trail |-> <<>>,
     called |-> FALSE, username |-> "", avalid |-> FALSE, aerr |-> Nil, flushed |-> FALSE, raced |-> FALSE,
     overlap |-> FALSE,
     ret |-> NoReturn, resp |-> NoResponse]

Init ==
    /\ cache = EmptyStore
    /\ alive = TRUE
    /\ env \in {"", "wkey"}
    /\ th = [t \in Threads |-> Idle]
    /\ fresh = [n \in {} |-> ZeroFormatted]
    /\ lapsed = {}
    /\ db = InitialAccounts

\* Sequences of at most n elements of S.
SeqUpTo(S, n) == UNION {[1..k -> S] : k \in 0..n}

\* ------------------------------------------------- the callers' loop bodies
\* The call FetchWeatherData(r.queries[r.i]) by the thread with locals r.
CallFetch(r) ==
    [r EXCEPT !.pc = "read", !.q = <<>>, !.query = <<>>, !.data = ZeroFormatted,
              !.frec = ZeroFormatted, !.ferr = Nil, !.hit = FALSE, !.rerr = Nil,
              !.seen = NotSeen, !.provider = "none",
              !.nGet = 0, !.nProv = 0, !.nSet = 0, !.setFailed = FALSE,
              !.expect = NoExpect, !.wasLapsed = FALSE, !.raced = FALSE,
              !.overlap = FALSE]

\* What FetchWeatherData has just returned to its caller, for the trail.
FetchOutcome(r) ==
    [class |-> IF r.ferr = Nil THEN "found"
               ELSE IF r.ferr = ErrNoLocationFound THEN "notfound" ELSE "error",
     nProv |-> r.nProv]

\* WeatherData after FetchWeatherData has returned (weather_handler.go:38-50).
WeatherDataRespond(r) ==
    [r EXCEPT !.pc = "done", !.trail = Append(@, FetchOutcome(r)),
              !.resp = WeatherDataResponse(r.frec, r.ferr)]

\* FetchBulkWeatherData from a loop position: the next FetchWeatherData, or
\* the return after the last query and the handler's response to it.
BulkAdvance(r) ==
    IF r.i < Len(r.queries)
    THEN CallFetch([r EXCEPT !.i = @ + 1])
    ELSE LET ret == BulkReturn(r.found, r.notFound)
         IN [r EXCEPT !.pc = "done", !.ret = ret, !.resp = BulkWeatherDataResponse(ret)]

\* FetchBulkWeatherData after one FetchWeatherData has returned
\* (weatherapi_service.go:148-167) and, when the call returns, the handler's
\* response (weather_handler.go:79-95).
BulkNext(r) ==
    LET it == BulkIteration(r.found, r.notFound, r.queries[r.i], r.frec, r.ferr)
        r1 == [r EXCEPT !.trail = Append(@, FetchOutcome(r))]
    IN IF it.abort
       THEN LET ret == [found |-> it.found, notFound |-> it.notFound,
                        notFoundNil |-> TRUE, err |-> it.err]
            IN [r1 EXCEPT !.pc = "done", !.ret = ret,
                          !.resp = BulkWeatherDataResponse(ret)]
       ELSE BulkAdvance([r1 EXCEPT !.found = it.found, !.notFound = it.notFound])

\* The roster loop from a loop position: the next FetchWeatherData, or the
\* return nil after the last country.
RefreshAdvance(r) ==
    IF r.i < Len(r.queries)
    THEN CallFetch([r EXCEPT !.i = @ + 1])
    ELSE [r EXCEPT !.pc = "done", !.ret = NoReturn]

\* The roster loop after one FetchWeatherData has returned
\* (weatherapi_service.go:283-291).
RefreshNext(r) ==
    LET r1 == [r EXCEPT !.trail = Append(@, FetchOutcome(r))]
        it == RefreshIteration(r.ferr)
    IN IF it = "continue" THEN RefreshAdvance(r1)
       ELSE IF it = "sleep" THEN [r1 EXCEPT !.pc = "sleep"]
       ELSE [r1 EXCEPT !.pc = "done", !.ret = [NoReturn EXCEPT !.err = r.ferr]]

\* FetchWeatherData returns to the caller that made the call.
ReturnToCaller(r) ==
    IF r.op = "single" THEN WeatherDataRespond(r)
    ELSE IF r.op = "bulk" THEN BulkNext(r)
    ELSE RefreshNext(r)

\* ------------------------------------------------------- FetchWeatherData
\* weatherapi_service.go:85-128,139: title-case q and read the cache; return
\* on a hit or a store error; on a miss load the provider key, request,
\* parse and format, up to the cache write.  The provider holds no state the
\* program shares, so its round trip is taken in the same step as the read,
\* and so is what the caller does with a returned result up to its next
\* round trip.
FetchLookup(t) ==
    /\ alive /\ th[t].pc = "read"
    /\ \E read \in ReadOutcomes, resp \in ProviderResponses :
         LET r == th[t]
             q == capitalizeFirstLetter(r.queries[r.i])
             storeOK == read # "down"
             store == IF read = "garbled" THEN Garbled(cache, q) ELSE cache
             got == retrieveWeatherDataFromRedisCache(store, q, storeOK)
             nxt == FetchAfterCacheRead(got)
             r1 == [r EXCEPT !.q = q, !.nGet = @ + 1, !.hit = (got.err = Nil),
                             !.rerr = got.err,
                             !.seen = IF storeOK /\ q \in DOMAIN store
                                      THEN [present |-> TRUE, value |-> store[q]]
                                      ELSE NotSeen,
                             !.expect = IF read = "ok" /\ q \in DOMAIN fresh
                                        THEN [known |-> TRUE, rec |-> fresh[q]]
                                        ELSE NoExpect,
                             !.wasLapsed = (read = "ok" /\ q \in lapsed)]
             query == ReplaceSpaces(q)
             prov == FetchFromProvider(query, resp)
             toWrite == nxt.next # "return" /\ env # "" /\ prov.next = "write"
             rivals == IF toWrite
                       THEN {u \in Threads \ {t} : th[u].pc = "write" /\ th[u].q = q}
                       ELSE {}
             after ==
                IF nxt.next = "return"
                THEN ReturnToCaller([r1 EXCEPT !.frec = nxt.data, !.ferr = nxt.err])
                ELSE IF env = ""
                THEN ReturnToCaller([r1 EXCEPT !.frec = ZeroFormatted,
                                               !.ferr = ErrMissingEnv])
                ELSE IF prov.next = "write"
                THEN [r1 EXCEPT !.pc = "write", !.query = query, !.nProv = @ + 1,
                                !.provider = resp.kind, !.data = prov.data,
                                !.raced = rivals # {}]
                ELSE ReturnToCaller([r1 EXCEPT !.query = query, !.nProv = @ + 1,
                                               !.provider = resp.kind,
                                               !.frec = prov.data, !.ferr = prov.err])
         IN th' = [u \in Threads |->
                      IF u = t THEN after
                      ELSE IF u \in rivals THEN [th[u] EXCEPT !.raced = TRUE]
                      ELSE th[u]]
    /\ UNCHANGED <<cache, alive, env, fresh, lapsed, db>>

\* weatherapi_service.go:129-135 and cacheTheWeatherDataToRedis: SET with a
\* 30-minute expiry, then the return of the record; a failed SET ends the
\* process through log.Fatalf.
CacheWrite(t) ==
    /\ alive /\ th[t].pc = "write"
    /\ LET r == th[t] IN
       \E storeOK \in BOOLEAN :
         IF storeOK
         THEN /\ cache' = RedisSet(cache, CacheWriteKey(r.q),
                                   JSONText(MarshalFormatted(r.data)))
              /\ th' = [th EXCEPT ![t] =
                          ReturnToCaller([r EXCEPT !.nSet = @ + 1,
                                                   !.frec = r.data, !.ferr = Nil])]
              /\ fresh' = [n \in DOMAIN fresh \cup {r.q} |->
                              IF n = r.q THEN r.data ELSE fresh[n]]
              /\ lapsed' = lapsed \ {r.q}
              /\ alive' = alive
         ELSE /\ alive' = FALSE
              /\ th' = [th EXCEPT ![t] = [r EXCEPT !.pc = "fatal", !.nSet = @ + 1,
                                           !.setFailed = TRUE]]
              /\ UNCHANGED <<cache, fresh, lapsed>>
    /\ UNCHANGED <<env, db>>

\* Redis removes an entry whose 30 minutes have passed.
Expire(k) ==
    /\ alive /\ k \in DOMAIN cache
    /\ cache' = RedisDel(cache, k)
    /\ fresh' = [n \in {m \in DOMAIN fresh : CacheWriteKey(m) # k} |-> fresh[n]]
    /\ lapsed' = lapsed \cup {m \in DOMAIN fresh : CacheWriteKey(m) = k}
    /\ UNCHANGED <<alive, env, th, db>>

\* ------------------------------------------------------------ HTTP handlers
\* WeatherHandler.WeatherData from the request to the call of
\* FetchWeatherData (weather_handler.go:21-38, helpers.GetParametersFromUrl);
\* dbOK is whether the account store answers.
StartWeatherData(t, apiKey, q, dbOK) ==
    /\ alive /\ t \in Users /\ th[t].pc = "idle"
    /\ LET r == [Idle EXCEPT !.op = "single", !.apiKey = apiKey]
           denied == AuthorizationResponse(APIKeyAuthorization(StoredAPIKeys, apiKey, dbOK))
       IN th' = [th EXCEPT ![t] =
              IF apiKey = ""
              THEN [r EXCEPT !.pc = "done",
                             !.resp = ClientError(StatusBadRequest, "api key is missing or invalid")]
              ELSE IF q = <<>> \/ q = <<" ">>
              THEN [r EXCEPT !.pc = "done",
                             !.resp = ClientError(StatusBadRequest, "parameter q is missing")]
              ELSE IF denied # NoResponse
              THEN [r EXCEPT !.pc = "done", !.resp = denied,
                             !.avalid = APIKeyAuthorization(StoredAPIKeys, apiKey, dbOK).valid,
                             !.aerr = APIKeyAuthorization(StoredAPIKeys, apiKey, dbOK).err]
              ELSE CallFetch([r EXCEPT !.queries = <<q>>, !.i = 1, !.called = TRUE,
                      !.avalid = APIKeyAuthorization(StoredAPIKeys, apiKey, dbOK).valid])]
    /\ UNCHANGED <<cache, alive, env, fresh, lapsed, db>>

\* WeatherHandler.BulkWeatherData from the request to the call of
\* FetchBulkWeatherData and its first FetchWeatherData
\* (weather_handler.go:53-79, helpers.GetParametersFromUrlForBulk);
\* bodyOK is whether the JSON body binds to LocationsForm.
StartBulkWeatherData(t, apiKey, bodyOK, locations, dbOK) ==
    /\ alive /\ t \in Users /\ th[t].pc = "idle"
    /\ LET r == [Idle EXCEPT !.op = "bulk", !.apiKey = apiKey]
           denied == AuthorizationResponse(APIKeyAuthorization(StoredAPIKeys, apiKey, dbOK))
       IN th' = [th EXCEPT ![t] =
              IF apiKey = ""
              THEN [r EXCEPT !.pc = "done",
                             !.resp = ClientError(StatusBadRequest, "api key is missing or invalid")]
              ELSE IF denied # NoResponse
              THEN [r EXCEPT !.pc = "done", !.resp = denied,
                             !.avalid = APIKeyAuthorization(StoredAPIKeys, apiKey, dbOK).valid,
                             !.aerr = APIKeyAuthorization(StoredAPIKeys, apiKey, dbOK).err]
              ELSE IF ~bodyOK
              THEN [r EXCEPT !.pc = "done",
                             !.resp = ClientError(StatusBadRequest, "Invalid validation error format")]
              ELSE BulkAdvance([r EXCEPT !.queries = FilterValidQValues(locations),
                                         !.i = 0, !.called = TRUE,
                      !.avalid = APIKeyAuthorization(StoredAPIKeys, apiKey, dbOK).valid])]
    /\ UNCHANGED <<cache, alive, env, fresh, lapsed, db>>

\* The handler or the job has returned; the thread is free again.
Finish(t) ==
    /\ alive /\ th[t].pc = "done"
    /\ th' = [th EXCEPT ![t] = Idle]
    /\ UNCHANGED <<cache, alive, env, fresh, lapsed, db>>

\* ------------------------------------------------------------- refresh job
\* cron "@every 30m" fires UpdateWeatherDataInTheRedisCache in a goroutine
\* of its own (main.go:70-87; cron.New() without a job wrapper).
StartRefresh(t) ==
    /\ alive /\ t \in Crons \cup Overruns /\ th[t].pc = "idle"
    /\ th' = [th EXCEPT ![t] = [Idle EXCEPT !.pc = "flush", !.op = "refresh",
                                           !.queries = country_list]]
    /\ UNCHANGED <<cache, alive, env, fresh, lapsed, db>>

\* deleteAllWeatherDataFromRedisCache, the return on its error and the
\* first call of FetchWeatherData (weatherapi_service.go:260-283).
Flush(t) ==
    /\ alive /\ th[t].pc = "flush"
    /\ LET r == th[t] IN
       \E storeOK \in BOOLEAN :
         LET err == IF storeOK THEN Nil ELSE ErrRedisFlush IN
         /\ cache' = IF storeOK THEN EmptyStore ELSE cache
         /\ fresh' = IF storeOK THEN [n \in {} |-> ZeroFormatted] ELSE fresh
         /\ lapsed' = IF storeOK THEN {} ELSE lapsed
         /\ th' = [u \in Threads |->
                IF u = t
                THEN IF RefreshAfterFlush(err)
                     THEN RefreshAdvance([r EXCEPT !.flushed = storeOK, !.i = 0])
                     ELSE [r EXCEPT !.pc = "done", !.flushed = storeOK,
                                    !.ret = [NoReturn EXCEPT !.err = err]]
                ELSE IF storeOK /\ u \in Users /\ th[u].pc \in {"read", "write"}
                THEN [th[u] EXCEPT !.overlap = TRUE]
                ELSE th[u]]
    /\ UNCHANGED <<alive, env, db>>

\* time.Sleep(500 * time.Millisecond) has elapsed.
Sleep(t) ==
    /\ alive /\ th[t].pc = "sleep"
    /\ th' = [th EXCEPT ![t] = RefreshAdvance(th[t])]
    /\ UNCHANGED <<cache, alive, env, fresh, lapsed, db>>

\* --------------------------------------------------------------- the system
\* The "locations" lists a bulk request body can carry.
BulkBodies == SeqUpTo(Queries \cup {<<>>}, MaxBulk)

\* A single-location request arrives at a free HTTP goroutine.
RequestWeatherData ==
    \E t \in Users, k \in PresentedAPIKeys, q \in Queries \cup {<<>>},
       dbOK \in BOOLEAN :
       StartWeatherData(t, k, q, dbOK)

\* A request of either kind arrives at a free HTTP goroutine.
Request(bodies) ==
    \/ RequestWeatherData
    \/ \E t \in Users, k \in PresentedAPIKeys, ok \in BOOLEAN, l \in bodies,
          dbOK \in BOOLEAN :
          StartBulkWeatherData(t, k, ok, l, dbOK)

\* The server: single-location requests next to the refresh job, whose runs
\* here are shorter than the 30 minutes between two firings.
Next ==
    \/ RequestWeatherData
    \/ \E t \in Threads : FetchLookup(t)
    \/ \E t \in Threads : CacheWrite(t)
    \/ \E k \in DOMAIN cache : Expire(k)
    \/ \E t \in Threads : Finish(t)
    \/ \E t \in Crons : StartRefresh(t)
    \/ \E t \in Threads : Flush(t)
    \/ \E t \in Threads : Sleep(t)

Spec == Init /\ [][Next]_vars

\* The server between two firings of the refresh job: requests of both
\* kinds, no refresh.
NextServe ==
    \/ Request(BulkBodies)
    \/ \E t \in Users : FetchLookup(t)
    \/ \E t \in Users : CacheWrite(t)
    \/ \E k \in DOMAIN cache : Expire(k)
    \/ \E t \in Users : Finish(t)

SpecServe == Init /\ [][NextServe]_vars

\* UserHandler.Signup calls InsertNewUser (users_handler.go:27-60) and answers.
Signup(t, username, hashOK, userOK, keyOK) ==
    /\ alive /\ t \in Users /\ th[t].pc = "idle"
    /\ LET res == InsertNewUser(db, username, hashOK, userOK, keyOK)
       IN /\ db' = res.db
          /\ th' = [th EXCEPT ![t] =
                 [Idle EXCEPT !.pc = "done", !.op = "signup", !.username = username,
                              !.ret = [NoReturn EXCEPT !.err = res.err]]]
    /\ UNCHANGED <<cache, alive, env, fresh, lapsed>>

\* The sign-up endpoint alone.
NextUsers ==
    \/ \E t \in Users, username \in Usernames, hashOK, userOK, keyOK \in BOOLEAN :
          Signup(t, username, hashOK, userOK, keyOK)
    \/ \E t \in Users : Finish(t)

SpecUsers == Init /\ [][NextUsers]_vars

\* The scheduler alone: every firing starts a run whether or not the run
\* before it has returned.
NextCron ==
    \/ \E t \in Crons \cup Overruns : StartRefresh(t)
    \/ \E t \in Crons \cup Overruns : Flush(t)
    \/ \E t \in Crons \cup Overruns : FetchLookup(t)
    \/ \E t \in Crons \cup Overruns : CacheWrite(t)
    \/ \E t \in Crons \cup Overruns : Sleep(t)
    \/ \E t \in Crons \cup Overruns : Finish(t)

SpecCron == Init /\ [][NextCron]_vars

\* ------------------------------------------------------------ the formatter
\* The readings formatWeatherData is tried on: each measure over the whole
\* range while the other two stay at zero.
ReadingRange == (0 - BelowZero)..MaxReading
FormatReadings ==
    {[TempC |-> v, WindKph |-> 0, Cloud |-> 0] : v \in ReadingRange}
    \cup {[TempC |-> 0, WindKph |-> v, Cloud |-> 0] : v \in ReadingRange}
    \cup {[TempC |-> 0, WindKph |-> 0, Cloud |-> v] : v \in ReadingRange}

\* formatWeatherData applied to a parsed provider answer with the given
\* reading (weatherapi_service.go:117-128); the record is left in data.
FormatReading(t, reading) ==
    /\ alive /\ t \in Users /\ th[t].pc = "idle"
    /\ LET body == ProviderBody(<<"A">>, [kind |-> "ok", reading |-> reading])
       IN th' = [th EXCEPT ![t] =
              [Idle EXCEPT !.pc = "done", !.op = "format",
                           !.data = formatWeatherData(UnmarshalWeather(body))]]
    /\ UNCHANGED <<cache, alive, env, fresh, lapsed, db>>

NextFormat ==
    \/ \E t \in Users, reading \in FormatReadings : FormatReading(t, reading)
    \/ \E t \in Users : Finish(t)

SpecFormat == Init /\ [][NextFormat]_vars

\* ================================================================== claims
\* A FetchWeatherData call of thread t has returned and its result is still
\* in view: the handler has answered, or the refresh job sleeps or is done.
Returned(t) == th[t].pc \in {"done", "sleep"} /\ th[t].nGet > 0

\* C1: a fetch of a location that an earlier fetch missed, fetched and
\* cached, with no expiry and no flush since, is a hit that returns the
\* earlier record and sends nothing to the provider.
C1_CacheAsideIdempotence ==
    \A t \in Threads :
        th[t].expect.known =>
            /\ th[t].hit
            /\ th[t].nProv = 0
            /\ (Returned(t) => th[t].ferr = Nil /\ th[t].frec = th[t].expect.rec)

\* C2: every key of the cache store is the title-cased form of a location
\* name, the key a cache read of that name uses.
C2_KeysAreTitleCased ==
    \A k \in DOMAIN cache :
        \E q \in Queries \cup {country_list[i] : i \in 1..Len(country_list)} :
            k = capitalizeFirstLetter(q)

\* C3: on a cache hit FetchWeatherData returns the deserialized cached
\* record with a nil error, and makes no provider request and no cache write.
C3_HitReturnsCachedRecord ==
    \A t \in Threads :
        (Returned(t) /\ th[t].hit) =>
            /\ th[t].seen.present
            /\ th[t].frec = UnmarshalFormatted(th[t].seen.value.obj)
            /\ th[t].ferr = Nil
            /\ th[t].nProv = 0
            /\ th[t].nSet = 0
            /\ (th[t].op = "single" =>
                    th[t].resp.status = StatusOK /\ th[t].resp.body.location = th[t].frec)

C3_Witness ==
    \E t \in Users :
        /\ th[t].op = "single" /\ th[t].pc = "done" /\ th[t].hit
        /\ th[t].frec # ZeroFormatted

\* C4: a cache write that fails after a successful fetch, parse and format
\* is only logged: the call returns the formatted record with a nil error
\* and the process keeps running.
C4_WriteFailureIsNotFatal ==
    \A t \in Threads :
        th[t].setFailed =>
            /\ alive
            /\ th[t].pc # "fatal"
            /\ th[t].ferr = Nil
            /\ th[t].frec = th[t].data

\* The not-found texts FetchBulkWeatherData owes for the first n queries,
\* given the outcome of each lookup.
RECURSIVE NotFoundOwed(_, _, _)
NotFoundOwed(queries, trail, n) ==
    IF n = 0 THEN <<>>
    ELSE NotFoundOwed(queries, trail, n - 1)
            \o (IF trail[n].class = "notfound"
                THEN <<NotFoundMessage(queries[n])>> ELSE <<>>)

\* C5: a bulk call in which no lookup fails with another error than not
\* found returns two lists whose lengths add up to the number of queries;
\* each query is in exactly one of them, and the not-found list holds
\* "'<q>' not found" for the raw query q of every lookup that was not found.
C5_BulkPartition ==
    \A t \in Users :
        (th[t].op = "bulk" /\ th[t].pc = "done" /\ th[t].called /\ th[t].ret.err = Nil) =>
            LET r == th[t]
                n == Len(r.queries)
                nFound == Cardinality({i \in 1..n : r.trail[i].class = "found"})
            IN /\ Len(r.trail) = n
               /\ \A i \in 1..n : r.trail[i].class \in {"found", "notfound"}
               /\ Len(r.ret.found) + Len(r.ret.notFound) = n
               /\ Len(r.ret.found) = nFound
               /\ r.ret.notFound = NotFoundOwed(r.queries, r.trail, n)

C5_Witness ==
    \E t \in Users :
        /\ th[t].op = "bulk" /\ th[t].pc = "done" /\ th[t].ret.err = Nil
        /\ Len(th[t].queries) = 2
        /\ Len(th[t].ret.found) = 1 /\ Len(th[t].ret.notFound) = 1

\* C6: a bulk call in which a lookup fails with another error than not found
\* returns that error and neither list, whatever it had collected.
C6_BulkAbort ==
    \A t \in Users :
        (th[t].op = "bulk" /\ th[t].pc = "done" /\ th[t].called) =>
            LET r == th[t] IN
            (\E i \in 1..Len(r.trail) : r.trail[i].class = "error") =>
                /\ r.ret.err = r.ferr
                /\ r.ret.err \notin {Nil, ErrNoLocationFound}
                /\ r.ret.found = <<>>
                /\ r.ret.notFound = <<>>
                /\ r.ret.notFoundNil
                /\ r.trail[Len(r.trail)].class = "error"

C6_Witness ==
    \E t \in Users :
        /\ th[t].op = "bulk" /\ th[t].pc = "done" /\ th[t].ret.err # Nil
        /\ Len(th[t].found) + Len(th[t].notFound) > 0

\* C7: a request whose API key is not in the account store is answered
\* without a call of FetchWeatherData or FetchBulkWeatherData: no cache
\* operation and no provider request is made for it.
C7_AuthorizationShortCircuit ==
    \A t \in Users :
        (th[t].op \in {"single", "bulk"} /\ th[t].apiKey \notin StoredAPIKeys) =>
            /\ th[t].pc = "done"
            /\ ~th[t].called
            /\ th[t].trail = <<>>
            /\ th[t].nGet = 0 /\ th[t].nProv = 0 /\ th[t].nSet = 0
            /\ th[t].resp.status # StatusOK

C7_Witness ==
    \E t \in Users :
        /\ th[t].op = "bulk" /\ th[t].pc = "done" /\ th[t].apiKey = "k9"
        /\ th[t].resp.status = StatusUnauthorized

\* C8: when a refresh returns, every roster location whose fetch succeeded
\* is in the cache (a lookup of the roster name is a hit) and the provider
\* was asked for it exactly once during the run.
C8_RefreshFlushInvariant ==
    \A t \in Crons :
        (th[t].op = "refresh" /\ th[t].pc = "done" /\ th[t].flushed) =>
            \A i \in 1..Len(th[t].trail) :
                th[t].trail[i].class = "found" =>
                    /\ retrieveWeatherDataFromRedisCache(
                           cache, capitalizeFirstLetter(country_list[i]), TRUE).err = Nil
                    /\ th[t].trail[i].nProv = 1

\* C9: the refresh flushes the cache before its first fetch, then fetches
\* the roster entries one by one in roster order; when the flush fails it
\* returns the flush error without any fetch.
C9_FlushThenRosterInOrder ==
    \A t \in Crons :
        th[t].op = "refresh" =>
            LET r == th[t] IN
            /\ r.queries = country_list
            /\ r.pc \in {"read", "write", "sleep"} =>
                  /\ r.flushed
                  /\ r.i \in 1..Len(country_list)
                  /\ Len(r.trail) = (IF r.pc = "sleep" THEN r.i ELSE r.i - 1)
            /\ (r.pc = "done" /\ ~r.flushed) =>
                  /\ r.ret.err = ErrRedisFlush
                  /\ r.trail = <<>> /\ r.i = 0
                  /\ r.nGet = 0 /\ r.nProv = 0 /\ r.nSet = 0
            /\ r.pc = "flush" => (r.trail = <<>> /\ r.nGet = 0 /\ ~r.flushed)

C9_Witness ==
    \E t \in Crons :
        /\ th[t].op = "refresh" /\ th[t].pc = "done" /\ ~th[t].flushed
        /\ DOMAIN cache # {}

\* C10: a roster entry whose fetch fails is skipped: the refresh goes on
\* with the entries after it, and once the flush has succeeded it returns
\* nil however many fetches failed.
C10_FailedFetchSkipped ==
    \A t \in Crons :
        (th[t].op = "refresh" /\ th[t].flushed) =>
            LET r == th[t] IN
            /\ r.pc = "done" => (r.ret.err = Nil /\ Len(r.trail) = Len(country_list))
            /\ \A i \in 1..Len(r.trail) :
                  (r.trail[i].class # "found" /\ i < Len(country_list)) =>
                      \/ Len(r.trail) > i
                      \/ r.pc # "done" /\ r.i = i + 1

C10_Witness ==
    \E t \in Crons :
        /\ th[t].op = "refresh" /\ th[t].pc = "done" /\ th[t].flushed
        /\ th[t].trail[1].class = "error"
        /\ th[t].trail[2].class = "found"

\* C11: when the cache read fails with another error than "no data in cache"
\* (the store fails, or the stored text cannot be deserialized),
\* FetchWeatherData returns that error with the zero record and makes no
\* provider request and no cache write.
C11_ReadErrorPropagates ==
    \A t \in Threads :
        (th[t].nGet > 0 /\ th[t].rerr \notin {Nil, ErrNoDataCache}) =>
            /\ Returned(t)
            /\ th[t].rerr \in {ErrRedisGet, ErrRedisUnmarshal}
            /\ th[t].ferr = th[t].rerr
            /\ th[t].frec = ZeroFormatted
            /\ th[t].provider = "none"
            /\ th[t].nProv = 0
            /\ th[t].nSet = 0

C11_Witness ==
    \E t \in Users :
        /\ th[t].pc = "done" /\ th[t].rerr = ErrRedisUnmarshal
        /\ th[t].seen.present
        /\ th[t].resp.status = StatusInternalServerError

\* C12: on a cache miss FetchWeatherData returns ErrNoLocationFound exactly
\* when the provider answered 400; a transport failure, another status than
\* 200 or a failed read of the body gives a non-nil error that is not
\* ErrNoLocationFound, on which a bulk call aborts instead of recording a
\* not-found text.
C12_NotFoundIffStatus400 ==
    \A t \in Users :
        Returned(t) =>
            LET r == th[t] IN
            /\ (r.ferr = ErrNoLocationFound) <=> (r.provider = "status_400")
            /\ r.provider \in {"transport_error", "status_500", "read_error"} =>
                  /\ r.ferr \notin {Nil, ErrNoLocationFound}
                  /\ r.op = "single" => r.resp.status = StatusInternalServerError
                  /\ r.op = "bulk" =>
                        /\ r.ret.err = r.ferr
                        /\ r.ret.notFound = <<>>
                        /\ r.resp.status = StatusInternalServerError
            /\ r.provider = "status_400" =>
                  /\ r.op = "single" => r.resp.status = StatusNotFound
                  /\ r.op = "bulk" =>
                        /\ r.ret.err = Nil
                        /\ r.ret.notFound # <<>>
                        /\ r.ret.notFound[Len(r.ret.notFound)]
                              = NotFoundMessage(r.queries[r.i])

C12_Witness ==
    \E t \in Users :
        /\ th[t].op = "bulk" /\ th[t].pc = "done"
        /\ th[t].provider = "status_500"
        /\ Len(th[t].notFound) = 1

\* What FetchWeatherData has written so far: an erroring call has made no
\* SET, the write step is reached only with a 200 answer whose payload
\* parsed, and every entry of the store is a complete record.
C13_NoWriteOnError ==
    /\ \A t \in Threads :
          /\ (Returned(t) /\ th[t].ferr # Nil) =>
                /\ th[t].nSet = 0
                /\ th[t].frec = ZeroFormatted
          /\ th[t].pc \in {"write", "fatal"} =>
                /\ th[t].provider = "ok"
                /\ th[t].rerr = ErrNoDataCache
                /\ env # ""
                /\ th[t].data.TempColor # "" /\ th[t].data.Name # <<>>
    /\ \A k \in DOMAIN cache :
          /\ cache[k].syntax = "ok"
          /\ \E n \in DOMAIN fresh :
                k = CacheWriteKey(n) /\ UnmarshalFormatted(cache[k].obj) = fresh[n]

\* Thread t's FetchWeatherData call returns an error in this step.
C13_ReturnsError(t) ==
    /\ th[t].pc \in {"read", "write"}
    /\ Len(th'[t].trail) = Len(th[t].trail) + 1
    /\ th'[t].trail[Len(th'[t].trail)].class # "found"

\* C13: a FetchWeatherData call that returns an error (no provider key, a
\* provider 400, another provider failure, an incomplete or an invalid
\* payload, a failed cache read) has made no cache write: the write step is
\* reached only with a 200 answer whose payload parsed, so that every entry
\* of the store is a complete record, and the step in which a call returns
\* an error adds, overwrites and removes no entry.
C13_ErrorLeavesCacheAlone ==
    /\ []C13_NoWriteOnError
    /\ [][\A t \in Threads : C13_ReturnsError(t) => cache' = cache]_vars

C13_Witness ==
    /\ DOMAIN cache # {}
    /\ \E t \in Users :
          /\ th[t].pc = "done" /\ th[t].provider = "mistyped"
          /\ th[t].ferr = ErrUnmarshalJSON
          /\ th[t].q \notin DOMAIN fresh

\* C14 as stated: the query sent to the provider is the caller's raw query
\* with its spaces escaped, not the title-cased form.
C14_RawQuerySent ==
    \A t \in Threads :
        th[t].nProv > 0 => th[t].query = ReplaceSpaces(th[t].queries[th[t].i])

\* C14, amended: the query sent to the provider is the title-cased form of
\* the caller's query, the name the cache read uses, with every space
\* replaced by "%20": "a" is sent as "A" and "a b" as "A%20B".
C14_TitleCasedQuerySent ==
    \A t \in Threads :
        th[t].nProv > 0 =>
            LET raw == th[t].queries[th[t].i] IN
            /\ th[t].q = capitalizeFirstLetter(raw)
            /\ th[t].query = ReplaceSpaces(th[t].q)
            /\ \A k \in 1..Len(th[t].query) : th[t].query[k] # " "
            /\ raw \in {<<"a">>, <<"A">>} => th[t].query = <<"A">>
            /\ raw \in {<<"a", " ", "b">>, <<"A", " ", "B">>} =>
                  th[t].query = <<"A", "%", "2", "0", "B">>

C14_Witness ==
    \E t \in Users :
        /\ th[t].nProv > 0 /\ th[t].provider = "ok"
        /\ th[t].queries[th[t].i] = <<"a", " ", "b">>
        /\ th[t].query # ReplaceSpaces(th[t].queries[th[t].i])

\* C15: after the cached entry of a location has expired, the next
\* successful FetchWeatherData for it is a miss that sends exactly one
\* provider request and writes the new record once, and from then on (until
\* the next expiry or flush) a lookup of the location is a hit on that record.
C15_FreshAfterExpiry ==
    \A t \in Threads :
        (Returned(t) /\ th[t].wasLapsed /\ th[t].ferr = Nil) =>
            /\ ~th[t].hit
            /\ th[t].nProv = 1
            /\ th[t].nSet = 1
            /\ th[t].q \in DOMAIN fresh =>
                  LET again == retrieveWeatherDataFromRedisCache(cache, th[t].q, TRUE)
                  IN again.err = Nil /\ again.data = fresh[th[t].q]

\* The provider names of the first n queries whose lookup found a record,
\* in the order of the queries.
RECURSIVE FoundNamesOwed(_, _, _)
FoundNamesOwed(queries, trail, n) ==
    IF n = 0 THEN <<>>
    ELSE FoundNamesOwed(queries, trail, n - 1)
            \o (IF trail[n].class = "found"
                THEN <<ReplaceSpaces(capitalizeFirstLetter(queries[n]))>> ELSE <<>>)

\* C16: in the result of FetchBulkWeatherData the found records are in the
\* order of their queries in the input list, and so are the not-found texts.
C16_BulkOrder ==
    \A t \in Users :
        (th[t].op = "bulk" /\ th[t].pc = "done" /\ th[t].called /\ th[t].ret.err = Nil) =>
            LET r == th[t]
                n == Len(r.queries)
            IN /\ Len(r.trail) = n
               /\ [k \in 1..Len(r.ret.found) |-> r.ret.found[k].Name]
                     = FoundNamesOwed(r.queries, r.trail, n)
               /\ r.ret.notFound = NotFoundOwed(r.queries, r.trail, n)
               /\ r.resp.body.bulk = r.ret.found
               /\ r.resp.body.not_found = r.ret.notFound

C16_Witness ==
    \E t \in Users :
        /\ th[t].op = "bulk" /\ th[t].pc = "done" /\ th[t].ret.err = Nil
        /\ th[t].queries = << <<"a", " ", "b">>, <<"a">> >>
        /\ Len(th[t].ret.found) = 2
        /\ th[t].ret.found[1].Name = <<"A", "%", "2", "0", "B">>
        /\ th[t].ret.found[2].Name = <<"A">>

\* C17: when no query of a successful bulk call was not found,
\* FetchBulkWeatherData returns a nil not-found list, never a present empty
\* one, and the response of BulkWeatherData has "bulk" and no "not_found";
\* "not_found" is in the response exactly when a query was not found.
C17_NotFoundAbsentWhenEmpty ==
    \A t \in Users :
        (th[t].op = "bulk" /\ th[t].pc = "done" /\ th[t].called /\ th[t].ret.err = Nil) =>
            LET r == th[t]
                someNotFound == \E i \in 1..Len(r.trail) : r.trail[i].class = "notfound"
            IN /\ r.ret.notFoundNil <=> ~someNotFound
               /\ r.ret.notFoundNil <=> (r.ret.notFound = <<>>)
               /\ r.resp.status = StatusOK
               /\ r.resp.body.kind = "bulk"
               /\ r.resp.body.bulk = r.ret.found
               /\ r.resp.body.has_not_found <=> someNotFound
               /\ r.resp.body.has_not_found => r.resp.body.not_found = r.ret.notFound
               /\ ~r.resp.body.has_not_found => r.resp.body.not_found = <<>>

C17_Witness ==
    \E t \in Users :
        /\ th[t].op = "bulk" /\ th[t].pc = "done" /\ th[t].ret.err = Nil
        /\ Len(th[t].ret.found) = 2
        /\ th[t].ret.notFoundNil
        /\ ~th[t].resp.body.has_not_found

\* The answer ServerError gives: 500 with the fixed text.
GenericServerError(resp) ==
    /\ resp.status = StatusInternalServerError
    /\ resp.body.kind = "error"
    /\ resp.body.message = "An unexpected server error occurred. Please try again later."

\* C18: the status of a weather request follows the class of the error: an
\* API key the account store does not know gives 401, a location the
\* provider cannot resolve gives 404 on the single-location endpoint, and
\* every other error (account store, cache, provider, payload, missing
\* provider key) gives 500 with the one fixed text, which is not the text of
\* the error.
C18_StatusByErrorClass ==
    \A t \in Users :
        (th[t].op \in {"single", "bulk"} /\ th[t].pc = "done") =>
            LET r == th[t] IN
            /\ r.aerr = ErrAPIKeyNotFound =>
                  /\ r.resp.status = StatusUnauthorized
                  /\ r.resp.body.message = "API key has been disabled."
            /\ r.aerr \notin {Nil, ErrAPIKeyNotFound} => GenericServerError(r.resp)
            /\ (r.op = "single" /\ r.called) =>
                  /\ r.ferr = Nil => r.resp.status = StatusOK
                  /\ r.ferr = ErrNoLocationFound => r.resp.status = StatusNotFound
                  /\ r.ferr \notin {Nil, ErrNoLocationFound} => GenericServerError(r.resp)
            /\ (r.op = "bulk" /\ r.called) =>
                  /\ r.ret.err = Nil => r.resp.status = StatusOK
                  /\ r.ret.err # Nil => GenericServerError(r.resp)
            /\ r.resp.status = StatusInternalServerError =>
                  /\ GenericServerError(r.resp)
                  /\ r.resp.body.message \notin {r.aerr, r.ferr, r.ret.err}
                  /\ \/ r.aerr \notin {Nil, ErrAPIKeyNotFound}
                     \/ r.called /\ r.ferr \notin {Nil, ErrNoLocationFound}
            /\ r.resp.status = StatusUnauthorized => r.aerr = ErrAPIKeyNotFound
            /\ r.resp.status = StatusNotFound =>
                  r.op = "single" /\ r.ferr = ErrNoLocationFound

C18_Witness ==
    \E t \in Users :
        /\ th[t].op = "single" /\ th[t].pc = "done"
        /\ th[t].ferr = ErrUnexpectedEndOfJSONInput
        /\ th[t].resp.status = StatusInternalServerError

\* The band colors of the three measures, in the order of their bands.
TempColors ==
    <<"#003366", "#4A90E2", "#B3DFFD", "#E6F7FF", "#D1F2D3", "#FFFACD",
      "#FFCC80", "#FF7043", "#D32F2F">>
WindColors == <<"#E0F7FA", "#B2EBF2", "#4DD0E1", "#0288D1", "#01579B">>
CloudColors == <<"#FFF9C4", "#FFF176", "#E0E0E0", "#9E9E9E", "#616161">>
ColorsOf(table) == {table[k] : k \in 1..Len(table)}

\* C19 as stated: for every input, negative ones and ones above 100
\* included, each banding function returns one of its band colors.
C19_AlwaysBandColor ==
    \A t \in Users :
        th[t].op = "format" =>
            /\ th[t].data.TempColor \in ColorsOf(TempColors)
            /\ th[t].data.WindColor \in ColorsOf(WindColors)
            /\ th[t].data.CloudColor \in ColorsOf(CloudColors)

\* C19, amended: getTempColor returns one of the 9 temperature colors for
\* every input; getWindColor returns one of the 5 wind colors for every wind
\* speed from 0 up, and getCloudColor one of the 5 cloud colors for every
\* cloud cover from 0 to 100; a negative wind speed and a cloud cover under 0
\* or over 100 get the fallback "#FFFFFF", which is no band color.
C19_BandColorInRange ==
    \A t \in Users :
        th[t].op = "format" =>
            LET d == th[t].data IN
            /\ d.TempColor \in ColorsOf(TempColors)
            /\ d.WindKph >= 0 => d.WindColor \in ColorsOf(WindColors)
            /\ d.WindKph < 0 => d.WindColor = "#FFFFFF"
            /\ (d.Cloud >= 0 /\ d.Cloud <= 100) => d.CloudColor \in ColorsOf(CloudColors)
            /\ (d.Cloud < 0 \/ d.Cloud > 100) => d.CloudColor = "#FFFFFF"
            /\ "#FFFFFF" \notin
                  ColorsOf(TempColors) \cup ColorsOf(WindColors) \cup ColorsOf(CloudColors)

C19_Witness ==
    \E t \in Users :
        /\ th[t].op = "format" /\ th[t].data.Cloud = 100
        /\ th[t].data.CloudColor = "#616161"

\* The band table: the lower thresholds of the bands of each measure; a value
\* lies in the band of the last threshold not above it (temperatures under
\* the first threshold lie in band 0).
TempThresholds == <<0 - 20, 0 - 10, 0, 10, 20, 30, 40, 50>>
WindThresholds == <<0, 10, 20, 40, 60>>
CloudThresholds == <<0, 10, 30, 60, 90>>
BandOf(thresholds, v) ==
    Cardinality({k \in 1..Len(thresholds) : thresholds[k] <= v})
InWindRange(v) == v >= 0
InCloudRange(v) == v >= 0 /\ v <= 100

\* C20: within the documented ranges (any temperature, wind from 0 up, cloud
\* 0..100) a formatted reading carries the color of its band under
\* inclusive-lower, exclusive-upper thresholds (100 in the last cloud band),
\* so a value at a threshold gets the band that starts there, and any other
\* value of the range has the same color exactly when it is in the same band.
C20_FollowsBandTable ==
    \A t \in Users :
        th[t].op = "format" =>
            LET d == th[t].data IN
            /\ d.TempColor = TempColors[BandOf(TempThresholds, d.TempC) + 1]
            /\ \A w \in ReadingRange :
                  TempColors[BandOf(TempThresholds, w) + 1] = d.TempColor
                      <=> BandOf(TempThresholds, w) = BandOf(TempThresholds, d.TempC)
            /\ InWindRange(d.WindKph) =>
                  /\ d.WindColor = WindColors[BandOf(WindThresholds, d.WindKph)]
                  /\ \A w \in {x \in ReadingRange : InWindRange(x)} :
                        WindColors[BandOf(WindThresholds, w)] = d.WindColor
                            <=> BandOf(WindThresholds, w) = BandOf(WindThresholds, d.WindKph)
            /\ InCloudRange(d.Cloud) =>
                  /\ d.CloudColor = CloudColors[BandOf(CloudThresholds, d.Cloud)]
                  /\ \A w \in {x \in ReadingRange : InCloudRange(x)} :
                        CloudColors[BandOf(CloudThresholds, w)] = d.CloudColor
                            <=> BandOf(CloudThresholds, w) = BandOf(CloudThresholds, d.Cloud)

C20_Witness ==
    \E t \in Users :
        /\ th[t].op = "format" /\ th[t].data.WindKph = 10
        /\ th[t].data.WindColor = "#B2EBF2"

\* What a raced call has done so far: its own provider request, no write
\* before its own SET, and once it has returned, its own SET and its own
\* record without an error; and when both calls of a race have returned, the
\* entry they wrote, if still there, is the whole record of one of them.
C21_RacedCalls ==
    /\ \A t \in Threads :
          th[t].raced =>
              /\ th[t].nProv = 1
              /\ th[t].pc = "write" => th[t].nSet = 0
              /\ Returned(t) =>
                    /\ th[t].nSet = 1 /\ th[t].ferr = Nil
                    /\ th[t].frec = th[t].data
    /\ \A t, u \in Threads :
          ( /\ t # u /\ th[t].raced /\ th[u].raced /\ th[t].q = th[u].q
            /\ Returned(t) /\ Returned(u)
            /\ CacheWriteKey(th[t].q) \in DOMAIN cache )
          => cache[CacheWriteKey(th[t].q)] \in
                 { JSONText(MarshalFormatted(th[t].frec)),
                   JSONText(MarshalFormatted(th[u].frec)) }

\* The SET of a raced call succeeds in this step.
C21_RacedWrite(t) ==
    /\ th[t].raced /\ th[t].pc = "write"
    /\ th'[t].pc \notin {"write", "fatal"}

\* C21: no request coalescing.  Two FetchWeatherData calls of the same
\* location that both miss before either writes each make their own provider
\* request and their own SET, each returns its record, and every such SET
\* leaves the whole record of its writer in the entry, so that the entry
\* afterwards is the record of one of the two (the later writer).
C21_NoCoalescing ==
    /\ []C21_RacedCalls
    /\ [][\A t \in Threads :
             C21_RacedWrite(t) =>
                 /\ CacheWriteKey(th[t].q) \in DOMAIN cache'
                 /\ cache'[CacheWriteKey(th[t].q)] = JSONText(MarshalFormatted(th[t].data))
                 /\ th'[t].ferr = Nil /\ th'[t].frec = th[t].data]_vars

C21_Witness ==
    \E t, u \in Threads :
        /\ t # u /\ th[t].raced /\ th[u].raced /\ th[t].q = th[u].q
        /\ Returned(t) /\ Returned(u)
        /\ th[t].frec # th[u].frec
        /\ CacheWriteKey(th[t].q) \in DOMAIN cache
        /\ cache[CacheWriteKey(th[t].q)] = JSONText(MarshalFormatted(th[u].frec))

\* The runs of UpdateWeatherDataInTheRedisCache that have started and not
\* returned.
RefreshesInProgress ==
    {t \in Threads : th[t].op = "refresh" /\ th[t].pc \notin {"idle", "done"}}

\* C22: at no time are two executions of UpdateWeatherDataInTheRedisCache
\* in progress.
C22_NoOverlappingRefresh == Cardinality(RefreshesInProgress) <= 1

\* C23: a bulk request in which one or more of the requested locations are
\* not found by the provider is answered with status 404.
C23_BulkNotFoundIs404 ==
    \A t \in Users :
        ( /\ th[t].op = "bulk" /\ th[t].pc = "done"
          /\ \E k \in 1..Len(th[t].trail) : th[t].trail[k].class = "notfound" )
        => th[t].resp.status = StatusNotFound

\* The provider answers other than a well-formed 200.
ProviderFailures ==
    {"transport_error", "status_400", "status_500", "read_error", "truncated",
     "mistyped"}

\* A user lookup that a flush overlapped and that has returned: an error it
\* returned is the failure of its own GET, the missing provider key or the
\* provider's answer, and when the provider resolved the location it
\* returned the record of that answer.
C24_OverlappedLookups ==
    \A t \in Users :
        (th[t].overlap /\ Returned(t)) =>
            /\ th[t].ferr # Nil =>
                  \/ th[t].rerr \in {ErrRedisGet, ErrRedisUnmarshal}
                  \/ th[t].ferr = ErrMissingEnv /\ env = ""
                  \/ th[t].provider \in ProviderFailures
            /\ th[t].provider = "ok" =>
                  /\ th[t].ferr = Nil /\ th[t].nProv = 1
                  /\ th[t].frec = th[t].data

\* The refresh job flushes the cache in this step.
C24_FlushStep ==
    \E c \in Crons : th[c].pc = "flush" /\ th'[c].pc # "flush" /\ th'[c].flushed

\* C24: a flush that comes while a user lookup is under way leaves the
\* lookup as it was; a read of the flushed cache is a miss that goes on to
\* the provider, never an error; and the overlapped lookup returns an error
\* only for a failure of its own, and a record whenever the provider
\* resolves the location.
C24_FlushOnlyCausesMiss ==
    /\ []C24_OverlappedLookups
    /\ [][C24_FlushStep =>
             \A t \in Users :
                 th[t].pc \in {"read", "write"} =>
                     LET got == retrieveWeatherDataFromRedisCache(
                                    cache', th[t].queries[th[t].i], TRUE)
                     IN /\ got.err = ErrNoDataCache
                        /\ FetchAfterCacheRead(got).next = "provider"
                        /\ th'[t] = [th[t] EXCEPT !.overlap = TRUE]]_vars

C24_Witness ==
    \E t \in Users :
        /\ th[t].overlap /\ Returned(t)
        /\ th[t].rerr = ErrNoDataCache /\ th[t].nProv = 1
        /\ th[t].ferr = Nil /\ th[t].frec = th[t].data
        /\ th[t].resp.status = StatusOK

\* C25: during a refresh the throttle delay lies between every two
\* consecutive roster fetches, whatever the outcome of the earlier one: the
\* fetch of the next roster entry starts only out of the sleep.
C25_ThrottleBetweenFetches ==
    [][\A t \in Crons :
          ( /\ th[t].op = "refresh" /\ th[t].i >= 1
            /\ th'[t].op = "refresh" /\ th'[t].i = th[t].i + 1 )
          => th[t].pc = "sleep"]_vars

\* Where a bulk call stands: the lookups of the queries before the current
\* one have returned, in input order, and no other; a lookup that failed
\* with another error than not found is the last one and the call is over.
C26_OneAfterAnother ==
    \A t \in Users :
        (th[t].op = "bulk" /\ th[t].called) =>
            LET r == th[t] IN
            /\ r.i <= Len(r.queries)
            /\ r.pc \in {"read", "write", "fatal"} => Len(r.trail) = r.i - 1
            /\ r.pc = "done" => Len(r.trail) = r.i
            /\ \A k \in 1..Len(r.trail) :
                  r.trail[k].class = "error" =>
                      /\ k = Len(r.trail)
                      /\ r.pc = "done" /\ r.ret.err # Nil

\* C26: FetchBulkWeatherData looks the queries up strictly one after another
\* in input order: the lookup of query i+1 starts in the step in which the
\* lookup of query i returns; after a lookup that fails with another error
\* than not found nothing is read or requested for a later query, and the
\* aborting step leaves the cache, with the entries written for earlier
\* queries, as it is.
C26_SequentialBulk ==
    /\ []C26_OneAfterAnother
    /\ [][\A t \in Users :
             (th[t].op = "bulk" /\ th[t].called /\ th'[t].op = "bulk") =>
                 /\ th'[t].i # th[t].i =>
                       /\ th'[t].i = th[t].i + 1
                       /\ th[t].pc \in {"read", "write"}
                       /\ th'[t].pc = "read"
                       /\ Len(th'[t].trail) = th[t].i
                       /\ th'[t].trail[th[t].i].class # "error"
                       /\ th'[t].nGet = 0 /\ th'[t].nProv = 0
                 /\ (th[t].pc = "read" /\ th'[t].pc = "done" /\ th'[t].ret.err # Nil) =>
                       /\ cache' = cache
                       /\ th'[t].i = th[t].i]_vars

C26_Witness ==
    \E t \in Users :
        /\ th[t].op = "bulk" /\ th[t].pc = "done"
        /\ Len(th[t].queries) = 2 /\ th[t].i = 1
        /\ Len(th[t].trail) = 1 /\ th[t].trail[1].class = "error"
        /\ th[t].ret.err # Nil

\* The record is an output of formatWeatherData: its metrics are a reading
\* of the provider and its colors the band colors of its own metrics.
C27_IsFormatted(d) ==
    /\ [TempC |-> d.TempC, WindKph |-> d.WindKph, Cloud |-> d.Cloud] \in Readings
    /\ d.Country = <<"X">> /\ d.Lat = 41 /\ d.Lon = 69
    /\ d.TempColor = TempColors[BandOf(TempThresholds, d.TempC) + 1]
    /\ d.WindColor = WindColors[BandOf(WindThresholds, d.WindKph)]
    /\ d.CloudColor = CloudColors[BandOf(CloudThresholds, d.Cloud)]

\* C27: every value in the cache is the serialization of an output of
\* formatWeatherData for the location of its key, and a record returned on a
\* cache hit is the record that was written: it serializes to the value
\* read and equals the record of the write that the entry comes from.
C27_CacheHoldsFormattedRecords ==
    /\ \A k \in DOMAIN cache :
          /\ cache[k].syntax = "ok"
          /\ LET d == UnmarshalFormatted(cache[k].obj)
             IN /\ cache[k].obj = MarshalFormatted(d)
                /\ d.Name # <<>>
                /\ C27_IsFormatted(d)
    /\ \A t \in Threads :
          (Returned(t) /\ th[t].hit) =>
              /\ th[t].seen.present
              /\ th[t].seen.value = JSONText(MarshalFormatted(th[t].frec))
              /\ C27_IsFormatted(th[t].frec)
              /\ th[t].expect.known => th[t].frec = th[t].expect.rec

C27_Witness ==
    \E t \in Users :
        /\ Returned(t) /\ th[t].hit /\ th[t].expect.known
        /\ th[t].frec = th[t].expect.rec
        /\ th[t].q \in DOMAIN cache
        /\ UnmarshalFormatted(cache[th[t].q].obj) = th[t].frec

\* Queries i and j of the list name the same location.
C28_SameLocation(r, i, j) ==
    capitalizeFirstLetter(r.queries[i]) = capitalizeFirstLetter(r.queries[j])

\* No SET is pending for an answer other than a resolved location; in a bulk
\* call every not-found lookup made its own provider request, the returned
\* not-found list has one entry for each of them, and the lookup of a
\* location that the call did not find before, and has not found since,
\* starts on a cache without an entry for it.
C28_NotFoundLeavesNoEntry ==
    /\ \A t \in Threads : th[t].pc = "write" => th[t].provider = "ok"
    /\ \A t \in Users :
          (th[t].op = "bulk" /\ th[t].called) =>
              LET r == th[t]
                  missed == {k \in 1..Len(r.trail) : r.trail[k].class = "notfound"}
              IN /\ \A k \in missed : r.trail[k].nProv = 1
                 /\ (r.pc = "done" /\ r.ret.err = Nil) =>
                       Len(r.ret.notFound) = Cardinality(missed)
                 /\ r.pc = "read" =>
                       \A j \in missed :
                           ( /\ C28_SameLocation(r, j, r.i)
                             /\ \A m \in (j + 1)..(r.i - 1) :
                                   C28_SameLocation(r, m, r.i) => m \in missed )
                           => capitalizeFirstLetter(r.queries[r.i]) \notin DOMAIN cache

\* The lookup of thread t returns ErrNoLocationFound in this step.
C28_ReturnsNotFound(t) ==
    /\ th[t].pc = "read" /\ th'[t].op = th[t].op
    /\ Len(th'[t].trail) = Len(th[t].trail) + 1
    /\ th'[t].trail[Len(th'[t].trail)].class = "notfound"

\* C28: not-found results are never cached.  The step in which a lookup
\* returns ErrNoLocationFound writes nothing, so a later lookup of the
\* location whose GET is answered reads a miss and asks the provider again:
\* k occurrences of an unresolvable query in a bulk list make k provider
\* requests and k not-found entries.
C28_NotFoundNeverCached ==
    /\ []C28_NotFoundLeavesNoEntry
    /\ [][\A t \in Users : C28_ReturnsNotFound(t) => cache' = cache]_vars

C28_Witness ==
    \E t \in Users :
        /\ th[t].op = "bulk" /\ th[t].pc = "done" /\ th[t].ret.err = Nil
        /\ Len(th[t].queries) = 2 /\ th[t].queries[1] = th[t].queries[2]
        /\ Len(th[t].trail) = 2
        /\ \A k \in 1..2 : th[t].trail[k].class = "notfound" /\ th[t].trail[k].nProv = 1
        /\ Len(th[t].ret.notFound) = 2

\* C29: the key check never reports (false, nil).  CheckUserAPIKey gives
\* (true, nil) exactly for a stored key whose query succeeds and an error
\* otherwise, APIKeyAuthorization gives the same verdict, and a handler,
\* which looks at the error only, has called the engine only with a verdict
\* of (true, nil), for a key of the account store.
C29_NeverFalseWithNilError ==
    /\ \A k \in PresentedAPIKeys, dbOK \in BOOLEAN :
          LET c == CheckUserAPIKey(StoredAPIKeys, k, dbOK)
              a == APIKeyAuthorization(StoredAPIKeys, k, dbOK)
          IN /\ c.valid <=> c.err = Nil
             /\ c.valid <=> (dbOK /\ k \in StoredAPIKeys)
             /\ a.valid <=> a.err = Nil
             /\ a.valid = c.valid
    /\ \A t \in Users :
          th[t].op \in {"single", "bulk"} =>
              /\ th[t].avalid <=> th[t].aerr = Nil /\ th[t].called
              /\ th[t].called => th[t].avalid /\ th[t].apiKey \in StoredAPIKeys
              /\ th[t].apiKey \notin StoredAPIKeys =>
                    th[t].nGet = 0 /\ th[t].nProv = 0 /\ th[t].trail = <<>>

C29_Witness ==
    \E t \in Users :
        /\ th[t].op = "single" /\ th[t].pc = "done"
        /\ th[t].called /\ th[t].avalid /\ th[t].aerr = Nil
        /\ th[t].apiKey \in StoredAPIKeys /\ th[t].nGet = 1

\* C30: after any sequence of InsertNewUser calls, every user stored in the
\* account store has an API key.
C30_EveryUserHasAPIKey ==
    \A u \in db.users : \E k \in db.api_keys : k.user_id = u.id

====
